---- MODULE Spec2Model ----
(***************************************************************************)
(* A model of the arbitrage back-testing pipeline:                         *)
(*                                                                         *)
(*   - the stream synchronizer, SynchronizedDataSelector, driven by the    *)
(*     loop of refine_results          (src/backtesting/process_data.py);  *)
(*   - the profitability model, ArbitrageCalculator                        *)
(*                            (src/backtesting/profitability_calculator.py)*)
(*   - the backtest walk, DataSelector and backtest_results, its           *)
(*     reporting, put_to_text_files, and the give_jobs threads             *)
(*                            (src/backtesting/arbitrage_backtester.py);   *)
(*   - the order book collector, OrderBookProcessor                        *)
(*                            (src/data-collection/orderbook_hdf.py).      *)
(*                                                                         *)
(* The components are independent programs that hand files to each other;  *)
(* each has its own specification (SpecSync, SpecProfit, SpecBacktest,     *)
(* SpecSelector, SpecReport, SpecThreads, SpecCollector) over its own      *)
(* variables, the other components idle.                                   *)
(*                                                                         *)
(* Python indexes rows from 0 and TLA+ sequences from 1: the model keeps   *)
(* the 0-based indexes of the code and reads row i as df[i + 1].           *)
(***************************************************************************)
EXTENDS Integers, Sequences, FiniteSets, TLC

VARIABLES
    \* SynchronizedDataSelector / refine_results
    df1,            \* first frame: a sequence of rows [timestamp |-> ms]
    df2,            \* second frame
    tolerance,      \* self.tolerance (ms)
    index1,         \* self.index1 (0-based)
    index2,         \* self.index2 (0-based)
    finished,       \* self.finished
    sync_pc,        \* "idle" | "run" | "done" | "raised"  (refine_results)
    pairs,          \* the (row1, row2) pairs get_next_row_pair has returned
    refined_data,   \* timestamps of the records refine_results has appended
    \* ArbitrageCalculator.compare_arbitrage_profitability
    df_exchange1,   \* the row of the first exchange
    df_exchange2,   \* the row of the second exchange
    exchange_obj1,  \* fee profile of the first exchange
    exchange_obj2,  \* fee profile of the second exchange
    prof_pc,        \* "idle" | "call" | "returned"
    result,         \* the record returned
    \* DataSelector / backtest_results
    full_dataframe, \* the records walked: [timestamp, net_profit_euro, max_initial_amount]
    bt_index,       \* DataSelector.index (0-based)
    bt_row,         \* DataSelector.row, as the 0-based position of the row held (-1: None)
    bt_finished,    \* DataSelector.finished
    bt_time_step,   \* the time_step get_next_row_after_time is called with (s)
    profits_over_time, \* [profit, time, cumulative_profit]
    bt_pc,          \* "idle" | "start" | "loop" | "post" | "returned" | "raised"
    evaluated,      \* history: positions of the rows the loop body has run on
    realized,       \* history: positions of the rows whose profit was credited
    \* OrderBookProcessor, one scheduled_task thread per exchange
    symbols,        \* exchange -> self.exchanges[exchange]["symbols"], a list
    stored,         \* exchange -> symbol -> the rows of the instrument's csv file, or None
    col_pc,         \* exchange -> "idle" | "schedule" | "run" | "fetch" | "fetched" | "done"
    col_queue,      \* exchange -> the symbols whose collect_data event is still to run
    col_symbol,     \* exchange -> the symbol of the collect_data call running
    attempt,        \* exchange -> the attempt argument of fetch_orders_safely
    orderbook,      \* exchange -> what fetch_orders_safely returned to get_orderbook
    col_frame,      \* exchange -> what get_orderbook returned to collect_data
    fetches,        \* history: exchange -> the outcomes of the fetches of the running call
    \* put_to_text_files on one file
    report,         \* the lines of backtest_results.txt
    direction,      \* the i of put_to_text_files' loop, the direction argument
    buy_exchange,   \* the local buy_exchange of backtest_results (line 64)
    rep_pc,         \* "idle" | "call" | "wait" | "done" | "caught"
    results,        \* history: per call returned, [direction, evaluated, realized, result]
    \* give_jobs threads
    files,          \* the number of files listed in refined_data (files[k] is file k)
    thr_pc,         \* thread -> "job" | "backtest" | "lock" | "open" | "write" | "close" | "done"
    thr_index,      \* thread -> the index of give_jobs' loop
    thr_dir,        \* thread -> the i of put_to_text_files' loop
    thr_result,     \* thread -> what backtest_results gives for the thread's current file
    thr_lock        \* thread -> the Lock object the thread holds, or None

syncVars == <<df1, df2, tolerance, index1, index2, finished, sync_pc, pairs, refined_data>>

profVars == <<df_exchange1, df_exchange2, exchange_obj1, exchange_obj2, prof_pc, result>>

btVars == <<full_dataframe, bt_index, bt_row, bt_finished, bt_time_step,
            profits_over_time, bt_pc, evaluated, realized>>

colVars == <<symbols, stored, col_pc, col_queue, col_symbol, attempt, orderbook,
             col_frame, fetches>>

repVars == <<report, direction, buy_exchange, rep_pc, results>>

thrVars == <<files, thr_pc, thr_index, thr_dir, thr_result, thr_lock>>

vars == <<syncVars, profVars, btVars, colVars, repVars, thrVars>>

----------------------------------------------------------------------------
(* Bounds and input domains                                                *)

\* Longest frame handed to the synchronizer.
MaxLen == 3

\* tolerance_ms=60000, the constructor's default (the one refine_results uses).
DefaultTolerance == 60000

\* Timestamps (ms) of the synchronizer's rows: 30 s apart, so that deltas
\* below, equal to and above both tolerances occur.
SyncTimes == {1000, 31000, 61000, 91000}

\* Tolerances the selector is constructed with.
Tolerances == {30000, DefaultTolerance}

Abs(x) == IF x < 0 THEN -x ELSE x

Min(a, b) == IF a < b THEN a ELSE b

\* All sequences over S of length at most n.
SeqsUpTo(S, n) == UNION {[1..k -> S] : k \in 0..n}

\* A frame sorted by timestamp (the collector appends rows as time passes).
IsOrdered(df) == \A i \in 1..(Len(df) - 1) : df[i].timestamp <= df[i + 1].timestamp

StrictlyIncreasing(df) == \A i \in 1..(Len(df) - 1) : df[i].timestamp < df[i + 1].timestamp

SyncRows == [timestamp : SyncTimes]

SyncFrames == {df \in SeqsUpTo(SyncRows, MaxLen) : IsOrdered(df)}

----------------------------------------------------------------------------
(* SynchronizedDataSelector                                                *)

\* df.iloc[index]: raises IndexError when the position is out of bounds.
InBounds(index, df) == index >= 0 /\ index < Len(df)

Iloc(df, index) == df[index + 1]

\* _is_last_row off by one: true only past the last row
IsPastLastRow(index, df) == index + 1 > Len(df)

IsLastRow(index, df) == index + 1 >= Len(df)

TimeDiff(row1, row2) == Abs(row1.timestamp - row2.timestamp)

WithinToleranceInclusive(time_diff, tol) == time_diff <= tol

\* the test of line 44
WithinTolerance(time_diff, tol) == time_diff < tol

EmitIndicesFirstOnly(i1, i2) == <<i1 + 1, i2>>

\* lines 45-46: both indexes move past the rows returned
EmitIndices(i1, i2) == <<i1 + 1, i2 + 1>>

\* the advance as the method's name and docstring word it: the index of the
\* frame with the greater timestamp moves
AdvanceGreaterSide(row1, row2, i1, i2) ==
    IF row1.timestamp > row2.timestamp THEN <<i1 + 1, i2>> ELSE <<i1, i2 + 1>>

\* <<index1, index2>> after _advance_index_with_greater_timestamp
AdvanceIndexWithGreaterTimestamp(row1, row2, i1, i2) ==
    IF row1.timestamp > row2.timestamp
    THEN <<i1, i2 + 1>>
    ELSE <<i1 + 1, i2>>

RecordTimestampDifference(t1, t2) == (t1 - t2) \div 2

\* profitability_calculator, line 90: the timestamp of the record of a pair
\* (the same for both directions compared by compare_arbitrage_profitability)
RecordTimestamp(t1, t2) == (t1 + t2) \div 2

----------------------------------------------------------------------------
(* ArbitrageCalculator                                                     *)
(*                                                                         *)
(* The code computes in floating point; the model computes the same        *)
(* expressions exactly. A taker fee is the fraction taker / FeeDen, and    *)
(* every amount of quote currency is held multiplied by Scale = FeeDen^2,  *)
(* so that max_volume * (1 - fee1) * bid * (1 - fee2) is an integer.       *)
(* A percentage is the exact fraction [num / den].  An optional value is   *)
(* None or Some(v).                                                        *)
(*                                                                         *)
(* compare_arbitrage_profitability is written without `self`, and          *)
(* profitability_calculator reads exchange_name1 / exchange_name2, which   *)
(* it never binds. The operators model the bodies as refine_results calls  *)
(* them: with the two rows and the two exchange objects, the names being   *)
(* those of the objects passed.                                            *)

None == <<>>

Some(v) == <<v>>

\* Denominator of the taker fees.
FeeDen == 10

Scale == FeeDen * FeeDen

\* backtest_results: max_trade_volume = 1000, the only ceiling the code configures
max_trade_volume == 1000

\* The symbol of the frames: base/quote.
Base == "ETH"

Quote == "BTC"

\* load_market_values: self.euro_values, fetched once at start-up
euro_values == [BTC |-> 2]

ConvertToEuro(initial_quote_paid, quote) == initial_quote_paid * euro_values[quote]

\* load_market_values keeps no BTC entry in btc_values: the quote BTC is returned as is
ConvertToBtc(initial_quote_paid, quote) == initial_quote_paid

\* self.exchanges[name].fees["funding"]["withdraw"][currency], None on KeyError
GetWithdrawalFee(exchange, currency) ==
    IF currency \in DOMAIN exchange.withdraw
    THEN Some(exchange.withdraw[currency])
    ELSE None

MaxVolumeOfAsks(df_ex1, df_ex2) == Min(df_ex1.ask_volume, df_ex2.ask_volume)

\* lines 103-105: max_volume = min(ask volume of the buy side, bid volume of the sell side)
MaxVolume(df_ex1, df_ex2) == Min(df_ex1.ask_volume, df_ex2.bid_volume)

\* <<initial_quote_paid, quote_gained>>, both times Scale
CalculateTradeAmounts(df_ex1, df_ex2, max_volume, fee1, fee2) ==
    LET ask_price_exchange1 == df_ex1.ask_price
        bid_price_exchange2 == df_ex2.bid_price
    IN <<max_volume * ask_price_exchange1 * Scale,
         max_volume * (FeeDen - fee1) * bid_price_exchange2 * (FeeDen - fee2)>>

\* adjust_for_withdrawal: without a fee the amount gained is returned unchanged
AdjustForWithdrawal(quote_gained, withdrawal_fee_exchange2) ==
    IF withdrawal_fee_exchange2 # None
    THEN Some(quote_gained - withdrawal_fee_exchange2[1] * Scale)
    ELSE Some(quote_gained)

CalculateProfits(initial_quote_paid, quote_gained, quote_gained_after_withdrawal) ==
    LET gross_profit == quote_gained - initial_quote_paid
    IN [gross_profit |-> gross_profit,
        percent_gross_profit |-> [num |-> gross_profit * 100, den |-> initial_quote_paid],
        net_profit |->
            IF quote_gained_after_withdrawal # None
            THEN Some(quote_gained_after_withdrawal[1] - initial_quote_paid)
            ELSE None,
        percent_net_profit |->
            IF quote_gained_after_withdrawal # None
            THEN Some([num |-> (quote_gained_after_withdrawal[1] - initial_quote_paid) * 100,
                       den |-> initial_quote_paid])
            ELSE None]

\* profitability_calculator: the record of the direction "buy on 1, sell on 2"
ProfitabilityCalculator(df_ex1, df_ex2, ex_obj1, ex_obj2) ==
    LET timestamp == RecordTimestamp(df_ex1.timestamp, df_ex2.timestamp)
        transaction_fee_exchange1 == ex_obj1.taker
        transaction_fee_exchange2 == ex_obj2.taker
        withdrawal_fee_exchange2 == GetWithdrawalFee(ex_obj2, Quote)
        max_volume == MaxVolume(df_ex1, df_ex2)
        amounts == CalculateTradeAmounts(df_ex1, df_ex2, max_volume,
                       transaction_fee_exchange1, transaction_fee_exchange2)
        initial_quote_paid == amounts[1]
        quote_gained == amounts[2]
        quote_gained_after_withdrawal ==
            AdjustForWithdrawal(quote_gained, withdrawal_fee_exchange2)
        profits == CalculateProfits(initial_quote_paid, quote_gained,
                       quote_gained_after_withdrawal)
    IN [max_initial_amount_euro |-> ConvertToEuro(initial_quote_paid, Quote),
        max_initial_amount_btc |-> ConvertToBtc(initial_quote_paid, Quote),
        gross_profit_euro |-> ConvertToEuro(profits.gross_profit, Quote),
        gross_profit_btc |-> ConvertToBtc(profits.gross_profit, Quote),
        percent_gross_profit |-> profits.percent_gross_profit,
        net_profit_euro |->
            IF profits.net_profit # None
            THEN Some(ConvertToEuro(profits.net_profit[1], Quote)) ELSE None,
        net_profit_btc |->
            IF profits.net_profit # None
            THEN Some(ConvertToBtc(profits.net_profit[1], Quote)) ELSE None,
        percent_net_profit |-> profits.percent_net_profit,
        buy_exchange |-> ex_obj1.name,
        sell_exchange |-> ex_obj2.name,
        timestamp |-> timestamp]

FirstIsBetterOrEqual(result1, result2) == result1.gross_profit_euro >= result2.gross_profit_euro

FirstIsWorse(result1, result2) == result1.gross_profit_euro < result2.gross_profit_euro

\* lines 207-208: the test that keeps result1
FirstIsBetter(result1, result2) == result1.gross_profit_euro > result2.gross_profit_euro

CompareArbitrageProfitability(df_ex1, df_ex2, ex_obj1, ex_obj2) ==
    LET result1 == ProfitabilityCalculator(df_ex1, df_ex2, ex_obj1, ex_obj2)
        result2 == ProfitabilityCalculator(df_ex2, df_ex1, ex_obj2, ex_obj1)
    IN IF FirstIsBetter(result1, result2) THEN result1 ELSE result2

\* Input domains of the profitability model.
Prices == {2, 3}

Volumes == {1, 2, max_trade_volume + 1}

ProfTimes == {1000, 2001}

ProfRows == [timestamp : ProfTimes, ask_price : Prices, ask_volume : Volumes,
             bid_price : Prices, bid_volume : Volumes]

TakerFees == {1, 2}

\* fees["funding"]["withdraw"]: with an entry for the quote currency, or without one
WithdrawTables == {[c \in {Quote} |-> 1], [c \in {} |-> 0]}

Exchanges(name) == [name : {name}, taker : TakerFees, withdraw : WithdrawTables]

----------------------------------------------------------------------------
(* DataSelector and backtest_results                                       *)

\* Longest record sequence handed to the backtest.
MaxRecords == 4

\* Most loop iterations of the walk that are followed.
MaxSteps == 6

\* waiting_time_minutes = 90: the pause between trades
waiting_time_minutes == 90

\* waiting_time, in seconds
waiting_time == waiting_time_minutes * 60

minimum_profit == 0

\* Timestamps (ms) of the records: around a trade a little after 1 s, inside its
\* cooldown, and on both sides of the cooldown's end 5400 s later.
BtTimes == {1400, 1600, 3000000, 5401000, 5401600, 5402000}

NetProfits == {-1, 0, 2}

InitialAmounts == {1, max_trade_volume + 1}

\* The columns of a record the walk reads, besides its timestamp.
BtAmounts == [net_profit_euro : NetProfits, max_initial_amount : InitialAmounts]

\* Strictly increasing timestamp sequences of length k.
BtTimelines(k) == {ts \in [1..k -> BtTimes] : \A i \in 1..(k - 1) : ts[i] < ts[i + 1]}

BtRow(ts, a) == [timestamp |-> ts, net_profit_euro |-> a.net_profit_euro,
                 max_initial_amount |-> a.max_initial_amount]

\* A refined frame: records in strictly increasing timestamp order.
BtFrame(ts, a) == [i \in 1..Len(ts) |-> BtRow(ts[i], a[i])]

\* round(ms / 1000): Python rounds a half to the even neighbour
RoundSeconds(ms) ==
    LET q == ms \div 1000
        r == ms % 1000
    IN IF r < 500 THEN q
       ELSE IF r > 500 THEN q + 1
       ELSE IF q % 2 = 0 THEN q ELSE q + 1

\* A selector is [row, index, finished]. get_next_row: load the row at index, then
\* finish when fewer than two rows follow it, else step the index.
GetNextRow(sel, df) ==
    IF sel.index + 2 >= Len(df)
    THEN [row |-> sel.index, index |-> sel.index, finished |-> TRUE]
    ELSE [row |-> sel.index, index |-> sel.index + 1, finished |-> sel.finished]

\* row["timestamp"] / 1000 < final_time, with final_time a whole number of seconds
BeforeFinalTime(sel, df, final_time) == df[sel.row + 1].timestamp < final_time * 1000

\* the loop of get_next_row_after_time
RECURSIVE SkipUntil(_, _, _)
SkipUntil(sel, df, final_time) ==
    IF BeforeFinalTime(sel, df, final_time)
    THEN LET next == GetNextRow(sel, df)
         IN IF next.finished THEN next ELSE SkipUntil(next, df, final_time)
    ELSE sel

\* lines 39-40: final_time = round(timestamp / 1000) + time_step
FinalTime(ms, time_step) == RoundSeconds(ms) + time_step

GetNextRowAfterTime(sel, df, time_step) ==
    SkipUntil(sel, df, FinalTime(df[sel.row + 1].timestamp, time_step))

\* the credited amount taken with the opposite sign when buying on the second
\* exchange
CappedProfitByDirection(row) ==
    IF direction = 1
    THEN 0 - row.net_profit_euro * Min(row.max_initial_amount, max_trade_volume)
    ELSE row.net_profit_euro * Min(row.max_initial_amount, max_trade_volume)

\* lines 79-84: net_profit_euro * min(max_initial_amount, max_trade_volume)
CappedProfit(row) ==
    row.net_profit_euro * Min(row.max_initial_amount, max_trade_volume)

\* IsRealized with the threshold itself counted as a profit
IsRealizedAtThreshold(row) == CappedProfit(row) >= minimum_profit

\* IsRealized testing for a difference from the threshold instead of an excess
IsRealizedUnlessEqual(row) == CappedProfit(row) # minimum_profit

\* line 86
IsRealized(row) == CappedProfit(row) > minimum_profit

Selector == [row |-> bt_row, index |-> bt_index, finished |-> bt_finished]

\* Post-processing, lines 96-101. Line 96 calls convert_seconds_to_minutes, a name
\* the module does not define; the model reads it as convert_time_to_minutes, the
\* function defined for that purpose (lines 103-114). Minutes rounded to two
\* decimals are held in hundredths of a minute, and the normalized profit as the
\* exact fraction [num / den] of cumulative_profit * 1440 / minutes_elapsed.

\* the 1440 of line 99: minutes in a day
MinutesPerDay == 1440

\* np.round(seconds / 60, 2), in hundredths: 5 * seconds / 3 to the nearest whole
\* (a third is never a half, so no tie arises)
MinutesX100(seconds) == (10 * seconds + 3) \div 6

\* convert_time_to_minutes: minutes relative to the first time of the list
ConvertTimeToMinutes(time_list) ==
    [i \in 1..Len(time_list) |-> MinutesX100(time_list[i] - time_list[1])]

\* line 99: cumulative_profit * (1440 / minutes_elapsed)
Normalized(cumulative_profit, minutes_x100) ==
    [num |-> cumulative_profit * MinutesPerDay * 100, den |-> minutes_x100]

\* The exchanges polled, each by its own thread (set_threads, lines 208-211)
ColExchanges == {"kraken", "bitstamp"}

ColIdle ==
    /\ symbols = [e \in ColExchanges |-> <<>>]
    /\ stored = [e \in ColExchanges |-> <<>>]
    /\ col_pc = [e \in ColExchanges |-> "idle"]
    /\ col_queue = [e \in ColExchanges |-> <<>>]
    /\ col_symbol = [e \in ColExchanges |-> None]
    /\ attempt = [e \in ColExchanges |-> 0]
    /\ orderbook = [e \in ColExchanges |-> None]
    /\ col_frame = [e \in ColExchanges |-> None]
    /\ fetches = [e \in ColExchanges |-> <<>>]

\* The threads start_and_join_jobs starts (952 of them at line 170; the model
\* runs NumThreads)
NumThreads == 2

Threads == 0..(NumThreads - 1)

RepIdle ==
    /\ report = <<>> /\ direction = 0 /\ buy_exchange = None
    /\ rep_pc = "idle" /\ results = <<>>

ThrIdle ==
    /\ files = 0
    /\ thr_pc = [t \in Threads |-> "idle"]
    /\ thr_index = [t \in Threads |-> 0]
    /\ thr_dir = [t \in Threads |-> 0]
    /\ thr_result = [t \in Threads |-> None]
    /\ thr_lock = [t \in Threads |-> None]

BtIdle ==
    /\ full_dataframe = <<>> /\ bt_index = 0 /\ bt_row = -1 /\ bt_finished = FALSE
    /\ bt_time_step = 0
    /\ profits_over_time = [profit |-> <<>>, time |-> <<>>, cumulative_profit |-> 0]
    /\ bt_pc = "idle" /\ evaluated = <<>> /\ realized = <<>>

ProfIdle ==
    /\ df_exchange1 = None /\ df_exchange2 = None
    /\ exchange_obj1 = None /\ exchange_obj2 = None
    /\ prof_pc = "idle" /\ result = None

SyncIdle ==
    /\ df1 = <<>> /\ df2 = <<>> /\ tolerance = 0
    /\ index1 = 0 /\ index2 = 0 /\ finished = FALSE
    /\ sync_pc = "idle" /\ pairs = <<>> /\ refined_data = <<>>

\* refine_results: selector = SynchronizedDataSelector(df1, df2)
InitSync ==
    /\ df1 \in SyncFrames
    /\ df2 \in SyncFrames
    /\ tolerance \in Tolerances
    /\ index1 = 0
    /\ index2 = 0
    /\ finished = FALSE
    /\ sync_pc = "run"
    /\ pairs = <<>>
    /\ refined_data = <<>>
    /\ ProfIdle
    /\ BtIdle
    /\ ColIdle
    /\ RepIdle
    /\ ThrIdle

\* One iteration of get_next_row_pair's loop is running: refine_results is in its
\* `while not selector.finished` loop and the selector's own loop guard holds.
SyncLooping == sync_pc = "run" /\ ~finished

\* lines 35-36: reading the current rows of an empty frame raises IndexError,
\* which nothing in refine_results or its callers catches.
SyncIndexError ==
    /\ SyncLooping
    /\ ~(InBounds(index1, df1) /\ InBounds(index2, df2))
    /\ sync_pc' = "raised"
    /\ UNCHANGED <<df1, df2, tolerance, index1, index2, finished, pairs, refined_data>>
    /\ UNCHANGED <<profVars, btVars, colVars, repVars, thrVars>>

\* lines 38-40: either index is on its frame's last row: finished, (None, None)
\* returned; refine_results breaks out of its loop and saves what it has.
SyncLastRow ==
    /\ SyncLooping
    /\ InBounds(index1, df1) /\ InBounds(index2, df2)
    /\ IsLastRow(index1, df1) \/ IsLastRow(index2, df2)
    /\ finished' = TRUE
    /\ sync_pc' = "done"
    /\ UNCHANGED <<df1, df2, tolerance, index1, index2, pairs, refined_data>>
    /\ UNCHANGED <<profVars, btVars, colVars, repVars, thrVars>>

\* lines 42-47 and refine_results 94-98: the rows are within tolerance; both
\* indexes advance, the pair is returned and its record appended. Of the record
\* only the timestamp is kept here; the profitability model computes the rest
\* (see ArbitrageCalculator above for how its call is bound).
SyncEmit ==
    /\ SyncLooping
    /\ InBounds(index1, df1) /\ InBounds(index2, df2)
    /\ ~(IsLastRow(index1, df1) \/ IsLastRow(index2, df2))
    /\ LET row1_now == Iloc(df1, index1)
           row2_now == Iloc(df2, index2)
           next == EmitIndices(index1, index2)
       IN /\ WithinTolerance(TimeDiff(row1_now, row2_now), tolerance)
          /\ index1' = next[1]
          /\ index2' = next[2]
          /\ pairs' = Append(pairs, [i1 |-> index1, i2 |-> index2,
                                     row1 |-> row1_now, row2 |-> row2_now])
          /\ refined_data' = Append(refined_data,
                 RecordTimestamp(row1_now.timestamp, row2_now.timestamp))
    /\ UNCHANGED <<df1, df2, tolerance, finished, sync_pc>>
    /\ UNCHANGED <<profVars, btVars, colVars, repVars, thrVars>>

\* lines 48-49: not within tolerance; one index advances and the loop repeats.
SyncAdvance ==
    /\ SyncLooping
    /\ InBounds(index1, df1) /\ InBounds(index2, df2)
    /\ ~(IsLastRow(index1, df1) \/ IsLastRow(index2, df2))
    /\ LET row1_now == Iloc(df1, index1)
           row2_now == Iloc(df2, index2)
           next == AdvanceIndexWithGreaterTimestamp(row1_now, row2_now, index1, index2)
       IN /\ ~WithinTolerance(TimeDiff(row1_now, row2_now), tolerance)
          /\ index1' = next[1]
          /\ index2' = next[2]
    /\ UNCHANGED <<df1, df2, tolerance, finished, sync_pc, pairs, refined_data>>
    /\ UNCHANGED <<profVars, btVars, colVars, repVars, thrVars>>

NextSync == SyncIndexError \/ SyncLastRow \/ SyncEmit \/ SyncAdvance

SpecSync == InitSync /\ [][NextSync]_vars

----------------------------------------------------------------------------
(* compare_arbitrage_profitability applied to one aligned pair             *)

InitProfit ==
    /\ SyncIdle
    /\ BtIdle
    /\ ColIdle
    /\ RepIdle
    /\ ThrIdle
    /\ df_exchange1 \in ProfRows
    /\ df_exchange2 \in ProfRows
    /\ exchange_obj1 \in Exchanges("kraken")
    /\ exchange_obj2 \in Exchanges("bitstamp")
    /\ prof_pc = "call"
    /\ result = None

ProfCompare ==
    /\ prof_pc = "call"
    /\ result' = CompareArbitrageProfitability(df_exchange1, df_exchange2,
                                               exchange_obj1, exchange_obj2)
    /\ prof_pc' = "returned"
    /\ UNCHANGED <<df_exchange1, df_exchange2, exchange_obj1, exchange_obj2>>
    /\ UNCHANGED <<syncVars, btVars, colVars, repVars, thrVars>>

NextProfit == ProfCompare

SpecProfit == InitProfit /\ [][NextProfit]_vars

----------------------------------------------------------------------------
(* backtest_results(df, direction): the walk                               *)

\* lines 71-72: data_row_selector = DataSelector(df), empty profit series
InitBacktest ==
    /\ SyncIdle
    /\ ProfIdle
    /\ ColIdle
    /\ RepIdle
    /\ ThrIdle
    /\ \E k \in 0..MaxRecords :
           \E ts \in BtTimelines(k), a \in [1..k -> BtAmounts] :
               full_dataframe = BtFrame(ts, a)
    /\ bt_index = 0
    /\ bt_row = -1
    /\ bt_finished = FALSE
    /\ bt_time_step = waiting_time
    /\ profits_over_time = [profit |-> <<>>, time |-> <<>>, cumulative_profit |-> 0]
    /\ bt_pc = "start"
    /\ evaluated = <<>>
    /\ realized = <<>>

\* line 74 on an empty frame: full_dataframe.loc[0] raises KeyError, which
\* put_to_text_files catches and prints.
BtStartKeyError ==
    /\ bt_pc = "start"
    /\ Len(full_dataframe) = 0
    /\ bt_pc' = "raised"
    /\ UNCHANGED <<full_dataframe, bt_index, bt_row, bt_finished, bt_time_step,
                   profits_over_time, evaluated, realized>>
    /\ UNCHANGED <<syncVars, profVars, colVars, repVars, thrVars>>

\* line 74: the first get_next_row; the loop is entered unless it finished
BtStart ==
    /\ bt_pc = "start"
    /\ Len(full_dataframe) > 0
    /\ LET next == GetNextRow(Selector, full_dataframe)
       IN /\ bt_row' = next.row
          /\ bt_index' = next.index
          /\ bt_finished' = next.finished
          /\ bt_pc' = IF next.finished THEN "post" ELSE "loop"
    /\ UNCHANGED <<full_dataframe, bt_time_step, profits_over_time, evaluated, realized>>
    /\ UNCHANGED <<syncVars, profVars, colVars, repVars, thrVars>>

\* lines 76-89: the row's time is appended; its profit exceeds the minimum: it is
\* credited and the selector skips the waiting time (bt_time_step is waiting_time
\* in backtest_results). The walk is followed for at most MaxSteps rows.
BtRealize ==
    /\ bt_pc = "loop"
    /\ Len(evaluated) < MaxSteps
    /\ LET row == full_dataframe[bt_row + 1]
           time_of_result == RoundSeconds(row.timestamp)
           next == GetNextRowAfterTime(Selector, full_dataframe, bt_time_step)
       IN /\ IsRealized(row)
          /\ profits_over_time' =
                 [profit |-> Append(profits_over_time.profit, CappedProfit(row)),
                  time |-> Append(profits_over_time.time, time_of_result),
                  cumulative_profit |->
                      profits_over_time.cumulative_profit + CappedProfit(row)]
          /\ bt_row' = next.row
          /\ bt_index' = next.index
          /\ bt_finished' = next.finished
          /\ bt_pc' = IF next.finished THEN "post" ELSE "loop"
    /\ evaluated' = Append(evaluated, bt_row)
    /\ realized' = Append(realized, bt_row)
    /\ UNCHANGED <<full_dataframe, bt_time_step>>
    /\ UNCHANGED <<syncVars, profVars, colVars, repVars, thrVars>>

\* lines 76-85, 90-91: the row's time is appended; its profit does not exceed the
\* minimum: the selector moves to the next row
BtPass ==
    /\ bt_pc = "loop"
    /\ LET row == full_dataframe[bt_row + 1]
           time_of_result == RoundSeconds(row.timestamp)
           next == GetNextRow(Selector, full_dataframe)
       IN /\ ~IsRealized(row)
          /\ profits_over_time' =
                 [profits_over_time EXCEPT !.time = Append(@, time_of_result)]
          /\ bt_row' = next.row
          /\ bt_index' = next.index
          /\ bt_finished' = next.finished
          /\ bt_pc' = IF next.finished THEN "post" ELSE "loop"
    /\ evaluated' = Append(evaluated, bt_row)
    /\ UNCHANGED <<full_dataframe, bt_time_step, realized>>
    /\ UNCHANGED <<syncVars, profVars, colVars, repVars, thrVars>>

\* line 96 with an empty time list: time_list[0] raises IndexError, which
\* put_to_text_files catches and prints.
BtPostIndexError ==
    /\ bt_pc = "post"
    /\ profits_over_time.time = <<>>
    /\ bt_pc' = "raised"
    /\ UNCHANGED <<full_dataframe, bt_index, bt_row, bt_finished, bt_time_step,
                   profits_over_time, evaluated, realized>>
    /\ UNCHANGED <<syncVars, profVars, colVars, repVars, thrVars>>

\* lines 96-99 with the last time equal to the first: the time list is converted,
\* minutes_elapsed is 0.0 and 1440 / minutes_elapsed raises ZeroDivisionError,
\* which put_to_text_files catches and prints.
BtPostZeroDivision ==
    /\ bt_pc = "post"
    /\ profits_over_time.time # <<>>
    /\ LET minutes == ConvertTimeToMinutes(profits_over_time.time)
       IN /\ minutes[Len(minutes)] = 0
          /\ profits_over_time' = [profits_over_time EXCEPT !.time = minutes]
    /\ bt_pc' = "raised"
    /\ UNCHANGED <<full_dataframe, bt_index, bt_row, bt_finished, bt_time_step,
                   evaluated, realized>>
    /\ UNCHANGED <<syncVars, profVars, colVars, repVars, thrVars>>

\* lines 96-101: the time list is converted to minutes, cumulative_profit is
\* multiplied by 1440 / minutes_elapsed in place, and the dictionary is returned.
BtPostReturn ==
    /\ bt_pc = "post"
    /\ profits_over_time.time # <<>>
    /\ LET minutes == ConvertTimeToMinutes(profits_over_time.time)
           minutes_elapsed == minutes[Len(minutes)]
       IN /\ minutes_elapsed # 0
          /\ profits_over_time' =
                 [profit |-> profits_over_time.profit,
                  time |-> minutes,
                  cumulative_profit |->
                      Normalized(profits_over_time.cumulative_profit, minutes_elapsed)]
    /\ bt_pc' = "returned"
    /\ UNCHANGED <<full_dataframe, bt_index, bt_row, bt_finished, bt_time_step,
                   evaluated, realized>>
    /\ UNCHANGED <<syncVars, profVars, colVars, repVars, thrVars>>

NextBacktest ==
    \/ BtStartKeyError \/ BtStart \/ BtRealize \/ BtPass
    \/ BtPostIndexError \/ BtPostZeroDivision \/ BtPostReturn

SpecBacktest == InitBacktest /\ [][NextBacktest]_vars

\* The time steps DataSelector.get_next_row_after_time is driven with: none, one
\* second, and the waiting time of backtest_results.
TimeSteps == {0, 1, waiting_time}

\* DataSelector under the loop of backtest_results, for any time_step
InitSelector ==
    /\ SyncIdle
    /\ ProfIdle
    /\ ColIdle
    /\ RepIdle
    /\ ThrIdle
    /\ \E k \in 0..MaxRecords :
           \E ts \in BtTimelines(k), a \in [1..k -> BtAmounts] :
               full_dataframe = BtFrame(ts, a)
    /\ bt_index = 0
    /\ bt_row = -1
    /\ bt_finished = FALSE
    /\ bt_time_step \in TimeSteps
    /\ profits_over_time = [profit |-> <<>>, time |-> <<>>, cumulative_profit |-> 0]
    /\ bt_pc = "start"
    /\ evaluated = <<>>
    /\ realized = <<>>

SpecSelector == InitSelector /\ [][NextBacktest]_vars

----------------------------------------------------------------------------
(* put_to_text_files(filename): both directions of one file                *)

\* line 141: the profit a result must exceed to be reported
ReportingThreshold == 10

\* line 141 with the threshold itself reported
AtLeastThreshold(cumulative_profit) ==
    cumulative_profit.num >= ReportingThreshold * cumulative_profit.den

\* line 141: result["cumulative_profit"] > 10, on the fraction [num / den], den > 0
ExceedsThreshold(cumulative_profit) ==
    cumulative_profit.num > ReportingThreshold * cumulative_profit.den

\* round(x, 2) of line 145 for x = num / den >= 0, as whole units and hundredths;
\* a tie goes to the even hundredth
Round2(x) ==
    LET whole == x.num \div x.den
        rest == (x.num % x.den) * 100
        low == rest \div x.den
        twice == 2 * (rest % x.den)
        cents == IF twice < x.den THEN low
                 ELSE IF twice > x.den THEN low + 1
                 ELSE IF low % 2 = 0 THEN low ELSE low + 1
    IN IF cents = 100 THEN [whole |-> whole + 1, cents |-> 0]
       ELSE [whole |-> whole, cents |-> cents]

\* the file processed, and its name without ".csv" split at "_" (lines 50, 64)
FileName == "BTC_EUR_kraken_bitstamp.csv"

NameParts == <<"BTC", "EUR", "kraken", "bitstamp">>

\* line 64: df.name.split("_")[2 + direction]
BuyExchange(d) == NameParts[2 + d + 1]

\* line 145: the line written for a result
ReportLine(filename, cumulative_profit) ==
    [filename |-> filename, cumulative_profit |-> Round2(cumulative_profit)]

\* Input domains: timestamps that put the normalized profit above, at and
\* below the threshold, and the report as found.
RepTimes == {1400, 5401600, 17281000, 17282000, 17283000}

RepTimelines(k) == {ts \in [1..k -> RepTimes] : \A i \in 1..(k - 1) : ts[i] < ts[i + 1]}

OldLine == [filename |-> "ETH_BTC_kraken_bitstamp.csv",
            cumulative_profit |-> [whole |-> 12, cents |-> 50]]

Reports == {<<>>, <<OldLine>>}

\* lines 137-139: the frame has been read, the loop over the two directions starts
InitReport ==
    /\ SyncIdle
    /\ ProfIdle
    /\ ColIdle
    /\ ThrIdle
    /\ \E k \in 0..MaxRecords :
           \E ts \in RepTimelines(k), a \in [1..k -> BtAmounts] :
               full_dataframe = BtFrame(ts, a)
    /\ bt_index = 0
    /\ bt_row = -1
    /\ bt_finished = FALSE
    /\ bt_time_step = waiting_time
    /\ profits_over_time = [profit |-> <<>>, time |-> <<>>, cumulative_profit |-> 0]
    /\ bt_pc = "idle"
    /\ evaluated = <<>>
    /\ realized = <<>>
    /\ report \in Reports
    /\ direction = 0
    /\ buy_exchange = None
    /\ rep_pc = "call"
    /\ results = <<>>

\* line 140 and backtest_results lines 64-72: the call for the current direction
\* binds buy_exchange and starts a fresh selector and result.
RepCall ==
    /\ rep_pc = "call"
    /\ buy_exchange' = Some(BuyExchange(direction))
    /\ bt_index' = 0
    /\ bt_row' = -1
    /\ bt_finished' = FALSE
    /\ profits_over_time' = [profit |-> <<>>, time |-> <<>>, cumulative_profit |-> 0]
    /\ bt_pc' = "start"
    /\ evaluated' = <<>>
    /\ realized' = <<>>
    /\ rep_pc' = "wait"
    /\ UNCHANGED <<full_dataframe, bt_time_step, report, direction, results>>
    /\ UNCHANGED <<syncVars, profVars, colVars, thrVars>>

\* after the body of the loop for direction i: the next direction, or the end
AfterDirection(i) == IF i = 0 THEN "call" ELSE "done"

\* lines 141-146: the result exceeds the threshold; its line is appended
RepWrite ==
    /\ rep_pc = "wait"
    /\ bt_pc = "returned"
    /\ ExceedsThreshold(profits_over_time.cumulative_profit)
    /\ report' = Append(report, ReportLine(FileName, profits_over_time.cumulative_profit))
    /\ results' = Append(results, [direction |-> direction, evaluated |-> evaluated,
                                     realized |-> realized, result |-> profits_over_time])
    /\ rep_pc' = AfterDirection(direction)
    /\ direction' = IF direction = 0 THEN 1 ELSE direction
    /\ UNCHANGED <<btVars, buy_exchange>>
    /\ UNCHANGED <<syncVars, profVars, colVars, thrVars>>

\* line 141 false: nothing is written for this direction
RepDiscard ==
    /\ rep_pc = "wait"
    /\ bt_pc = "returned"
    /\ ~ExceedsThreshold(profits_over_time.cumulative_profit)
    /\ results' = Append(results, [direction |-> direction, evaluated |-> evaluated,
                                     realized |-> realized, result |-> profits_over_time])
    /\ rep_pc' = AfterDirection(direction)
    /\ direction' = IF direction = 0 THEN 1 ELSE direction
    /\ UNCHANGED <<btVars, buy_exchange, report>>
    /\ UNCHANGED <<syncVars, profVars, colVars, thrVars>>

\* lines 147-148: backtest_results raised; the exception is printed and
\* put_to_text_files returns without trying the other direction
RepCaught ==
    /\ rep_pc = "wait"
    /\ bt_pc = "raised"
    /\ rep_pc' = "caught"
    /\ UNCHANGED <<btVars, buy_exchange, report, direction, results>>
    /\ UNCHANGED <<syncVars, profVars, colVars, thrVars>>

NextReport == NextBacktest \/ RepCall \/ RepWrite \/ RepDiscard \/ RepCaught

SpecReport == InitReport /\ [][NextReport]_vars

----------------------------------------------------------------------------
(* start_and_join_jobs: the give_jobs threads writing to one report        *)
(*                                                                         *)
(* Each thread runs put_to_text_files on its files. What backtest_results   *)
(* gives for a file is modelled above (SpecBacktest, SpecReport); here it   *)
(* is drawn when the file is read: an exception, or the normalized          *)
(* cumulative profit, the same for both directions.                         *)

\* line 158: the files a thread is given
JobsPerThread == 4

\* the most files refined_data holds
MaxFiles == 5

FileResults == {None, Some([num |-> 10, den |-> 1]), Some([num |-> 11, den |-> 1])}

\* line 159: the file of thread t's current job, files[thread_index * 4 + index]
JobFile(t) == t * JobsPerThread + thr_index[t]

\* the Lock object created by the `with threading.Lock()` of line 142 that thread
\* t executes for its current file and direction: a new object at every execution
NewLock(t) == Some(<<t, JobFile(t), thr_dir[t]>>)

\* lines 168-176: every thread is started
InitThreads ==
    /\ SyncIdle
    /\ ProfIdle
    /\ BtIdle
    /\ ColIdle
    /\ report = <<>> /\ direction = 0 /\ buy_exchange = None
    /\ rep_pc = "idle" /\ results = <<>>
    /\ files \in 0..MaxFiles
    /\ thr_pc = [t \in Threads |-> "job"]
    /\ thr_index = [t \in Threads |-> 0]
    /\ thr_dir = [t \in Threads |-> 0]
    /\ thr_result = [t \in Threads |-> None]
    /\ thr_lock = [t \in Threads |-> None]

\* line 159 past the end of files: IndexError, which give_jobs logs (161-162)
ThrNoFile(t) ==
    /\ thr_pc[t] = "job"
    /\ thr_index[t] < JobsPerThread
    /\ JobFile(t) >= files
    /\ thr_pc' = [thr_pc EXCEPT ![t] = "done"]
    /\ UNCHANGED <<files, thr_index, thr_dir, thr_result, thr_lock>>
    /\ UNCHANGED <<syncVars, profVars, btVars, colVars, repVars>>

\* line 158: the loop of give_jobs has run its four jobs
ThrJobsDone(t) ==
    /\ thr_pc[t] = "job"
    /\ thr_index[t] >= JobsPerThread
    /\ thr_pc' = [thr_pc EXCEPT ![t] = "done"]
    /\ UNCHANGED <<files, thr_index, thr_dir, thr_result, thr_lock>>
    /\ UNCHANGED <<syncVars, profVars, btVars, colVars, repVars>>

\* lines 159-160 and 138-139: the file is read and the loop over directions starts
ThrReadFile(t) ==
    /\ thr_pc[t] = "job"
    /\ thr_index[t] < JobsPerThread
    /\ JobFile(t) < files
    /\ \E r \in FileResults : thr_result' = [thr_result EXCEPT ![t] = r]
    /\ thr_dir' = [thr_dir EXCEPT ![t] = 0]
    /\ thr_pc' = [thr_pc EXCEPT ![t] = "backtest"]
    /\ UNCHANGED <<files, thr_index, thr_lock>>
    /\ UNCHANGED <<syncVars, profVars, btVars, colVars, repVars>>

\* lines 140, 147-148: backtest_results raises; put_to_text_files prints the
\* exception and returns, and give_jobs goes to its next job
ThrBacktestRaise(t) ==
    /\ thr_pc[t] = "backtest"
    /\ thr_result[t] = None
    /\ thr_index' = [thr_index EXCEPT ![t] = thr_index[t] + 1]
    /\ thr_pc' = [thr_pc EXCEPT ![t] = "job"]
    /\ UNCHANGED <<files, thr_dir, thr_result, thr_lock>>
    /\ UNCHANGED <<syncVars, profVars, btVars, colVars, repVars>>

\* the end of the loop body for a direction: the other direction, or the next job
ThrAdvance(t) ==
    IF thr_dir[t] = 0
    THEN /\ thr_dir' = [thr_dir EXCEPT ![t] = 1]
         /\ thr_pc' = [thr_pc EXCEPT ![t] = "backtest"]
         /\ UNCHANGED thr_index
    ELSE /\ thr_index' = [thr_index EXCEPT ![t] = thr_index[t] + 1]
         /\ thr_pc' = [thr_pc EXCEPT ![t] = "job"]
         /\ UNCHANGED thr_dir

\* lines 140-141: the result does not exceed the threshold
ThrBacktestLow(t) ==
    /\ thr_pc[t] = "backtest"
    /\ thr_result[t] # None
    /\ ~ExceedsThreshold(thr_result[t][1])
    /\ ThrAdvance(t)
    /\ UNCHANGED <<files, thr_result, thr_lock>>
    /\ UNCHANGED <<syncVars, profVars, btVars, colVars, repVars>>

\* lines 140-141: the result exceeds the threshold
ThrBacktestHigh(t) ==
    /\ thr_pc[t] = "backtest"
    /\ thr_result[t] # None
    /\ ExceedsThreshold(thr_result[t][1])
    /\ thr_pc' = [thr_pc EXCEPT ![t] = "lock"]
    /\ UNCHANGED <<files, thr_index, thr_dir, thr_result, thr_lock>>
    /\ UNCHANGED <<syncVars, profVars, btVars, colVars, repVars>>

\* line 142: `with threading.Lock()` creates a Lock and acquires it; acquiring
\* waits only while another thread holds that same object
ThrLock(t) ==
    /\ thr_pc[t] = "lock"
    /\ \A u \in Threads \ {t} : thr_lock[u] # NewLock(t)
    /\ thr_lock' = [thr_lock EXCEPT ![t] = NewLock(t)]
    /\ thr_pc' = [thr_pc EXCEPT ![t] = "open"]
    /\ UNCHANGED <<files, thr_index, thr_dir, thr_result>>
    /\ UNCHANGED <<syncVars, profVars, btVars, colVars, repVars>>

\* line 143: the report is opened for appending
ThrOpen(t) ==
    /\ thr_pc[t] = "open"
    /\ thr_pc' = [thr_pc EXCEPT ![t] = "write"]
    /\ UNCHANGED <<files, thr_index, thr_dir, thr_result, thr_lock>>
    /\ UNCHANGED <<syncVars, profVars, btVars, colVars, repVars>>

\* lines 144-146: the line is written, and leaving the two `with` blocks closes
\* the file and releases the lock
ThrWrite(t) ==
    /\ thr_pc[t] = "write"
    /\ report' = Append(report, ReportLine(JobFile(t), thr_result[t][1]))
    /\ thr_lock' = [thr_lock EXCEPT ![t] = None]
    /\ ThrAdvance(t)
    /\ UNCHANGED <<files, thr_result>>
    /\ UNCHANGED <<direction, buy_exchange, rep_pc, results>>
    /\ UNCHANGED <<syncVars, profVars, btVars, colVars>>

NextThreads ==
    \E t \in Threads :
        \/ ThrNoFile(t) \/ ThrJobsDone(t) \/ ThrReadFile(t)
        \/ ThrBacktestRaise(t) \/ ThrBacktestLow(t) \/ ThrBacktestHigh(t)
        \/ ThrLock(t) \/ ThrOpen(t) \/ ThrWrite(t)

SpecThreads == InitThreads /\ [][NextThreads]_vars

----------------------------------------------------------------------------
(* OrderBookProcessor: the collector (src/data-collection/orderbook_hdf.py) *)
(*                                                                         *)
(* The methods are decorated with @log_execution, a name the module never   *)
(* defines (the class defines log_errors, whose wrapper drops self), and    *)
(* get_orderbook and scheduled_task call get_precision,                     *)
(* process_orderbook_data and collect_data without self. The model takes    *)
(* the decorator as transparent and the calls as bound to the processor.    *)
(*                                                                         *)
(* A Python value that is either False or a list is the record              *)
(* [type, val]: False has type "bool" and no val, a list has its elements.  *)
(* An order level is <<price, volume>>.                                     *)

PyFalse == [type |-> "bool", val |-> <<>>]

PyList(l) == [type |-> "list", val |-> l]

\* Python truth of such a value: False and the empty list are false
Truthy(v) == v.val # <<>>

\* line 107: what fetch_orders_safely returns when it gives up
EmptySentinel == [asks |-> PyFalse, bids |-> PyFalse]

\* line 101: the number of attempts fetch_orders_safely allows
MaxFetchAttempts == 5

\* the limit passed to fetch_l2_order_book (line 103)
FetchDepth == 5

\* the levels weighted into a snapshot (lines 129, 132)
WeightedDepth == 3

\* line 101 with one attempt too many
CanAttemptOnceMore(a) == a <= MaxFetchAttempts

\* line 101: attempt < 5
CanAttempt(a) == a < MaxFetchAttempts

\* line 93 testing the wrong side of the book
HasBids(book) == Truthy(book.bids)

\* line 93: the negation of `not orderbook["asks"]`
HasAsks(book) == Truthy(book.asks)

\* list.remove(x): the list without the first occurrence of x
RECURSIVE ListRemove(_, _)
ListRemove(l, x) ==
    IF l = <<>> THEN <<>>
    ELSE IF Head(l) = x THEN Tail(l)
    ELSE <<Head(l)>> \o ListRemove(Tail(l), x)

\* orders[:n]
Take(l, n) == IF Len(l) <= n THEN l ELSE SubSeq(l, 1, n)

RECURSIVE SumVolume(_)
SumVolume(orders) ==
    IF orders = <<>> THEN 0 ELSE Head(orders)[2] + SumVolume(Tail(orders))

RECURSIVE SumPriceVolume(_)
SumPriceVolume(orders) ==
    IF orders = <<>> THEN 0
    ELSE Head(orders)[1] * Head(orders)[2] + SumPriceVolume(Tail(orders))

\* calculate_volume_and_weighted_price: the volume and the weighted price, the
\* price as the exact fraction [num / den] (0 when there is no volume)
CalculateVolumeAndWeightedPrice(orders) ==
    LET volume == SumVolume(orders)
    IN [volume |-> volume,
        weighted_price |-> IF volume # 0
                           THEN [num |-> SumPriceVolume(orders), den |-> volume]
                           ELSE [num |-> 0, den |-> 1]]

\* process_orderbook_data / calculate_weighted_prices: the one-row frame of a
\* snapshot taken at `timestamp`. The rounding to the market's precision (8
\* decimals unless the market says otherwise) and the dtype conversion are
\* left exact here.
ProcessOrderbookData(book, timestamp) ==
    LET bid == CalculateVolumeAndWeightedPrice(Take(book.bids.val, WeightedDepth))
        ask == CalculateVolumeAndWeightedPrice(Take(book.asks.val, WeightedDepth))
    IN <<[timestamp |-> timestamp,
          bid_price |-> bid.weighted_price, bid_volume |-> bid.volume,
          ask_price |-> ask.weighted_price, ask_volume |-> ask.volume]>>

\* Input domains of the collector: the symbols an exchange may be configured
\* with, the books a fetch may return (at most FetchDepth levels a side), the
\* clock readings, and the files that may exist beforehand.
ColSymbols == {"BTC/EUR", "ETH/BTC"}

ColSymbolLists(e) ==
    IF e = "kraken" THEN {<<"BTC/EUR">>, <<"BTC/EUR", "ETH/BTC">>} ELSE {<<"BTC/EUR">>}

AskSides == {<<>>, <<<<3, 1>>, <<4, 2>>, <<5, 1>>, <<6, 4>>>>}

BidSides == {<<>>, <<<<2, 1>>>>}

Books ==
    {[asks |-> PyList(a), bids |-> PyList(b)] :
        a \in {x \in AskSides : Len(x) <= FetchDepth}, b \in BidSides}

ColTimes == {1000, 2000}

OldRow == [timestamp |-> 500, bid_price |-> [num |-> 2, den |-> 1], bid_volume |-> 1,
           ask_price |-> [num |-> 3, den |-> 1], ask_volume |-> 1]

StoredFiles == {None, Some(<<OldRow>>)}

\* set_threads starts one scheduled_task thread per exchange
InitCollector ==
    /\ SyncIdle
    /\ ProfIdle
    /\ BtIdle
    /\ RepIdle
    /\ ThrIdle
    /\ symbols \in {f \in [ColExchanges -> UNION {ColSymbolLists(e) : e \in ColExchanges}] :
                       \A e \in ColExchanges : f[e] \in ColSymbolLists(e)}
    /\ stored \in [ColExchanges ->
                      {f \in [ColSymbols -> StoredFiles] : f["ETH/BTC"] = None}]
    /\ col_pc = [e \in ColExchanges |-> "schedule"]
    /\ col_queue = [e \in ColExchanges |-> <<>>]
    /\ col_symbol = [e \in ColExchanges |-> None]
    /\ attempt = [e \in ColExchanges |-> 0]
    /\ orderbook = [e \in ColExchanges |-> None]
    /\ col_frame = [e \in ColExchanges |-> None]
    /\ fetches = [e \in ColExchanges |-> <<>>]

\* scheduled_task, lines 186-197: one collect_data event is entered for every
\* symbol the exchange has at that moment (the exchange objects given are taken
\* to have the attributes read at lines 187-190).
ColSchedule(e) ==
    /\ col_pc[e] = "schedule"
    /\ col_queue' = [col_queue EXCEPT ![e] = symbols[e]]
    /\ col_pc' = [col_pc EXCEPT ![e] = "run"]
    /\ UNCHANGED <<symbols, stored, col_symbol, attempt, orderbook, col_frame, fetches>>
    /\ UNCHANGED <<syncVars, profVars, btVars, repVars, thrVars>>

\* s.run() starts the next event: collect_data (171-172) calls get_orderbook
\* (91-92), which calls fetch_orders_safely(symbol, exchange_object, 0).
ColCollect(e) ==
    /\ col_pc[e] = "run"
    /\ col_queue[e] # <<>>
    /\ col_symbol' = [col_symbol EXCEPT ![e] = Some(Head(col_queue[e]))]
    /\ col_queue' = [col_queue EXCEPT ![e] = Tail(col_queue[e])]
    /\ attempt' = [attempt EXCEPT ![e] = 0]
    /\ fetches' = [fetches EXCEPT ![e] = <<>>]
    /\ orderbook' = [orderbook EXCEPT ![e] = None]
    /\ col_frame' = [col_frame EXCEPT ![e] = None]
    /\ col_pc' = [col_pc EXCEPT ![e] = "fetch"]
    /\ UNCHANGED <<symbols, stored>>
    /\ UNCHANGED <<syncVars, profVars, btVars, repVars, thrVars>>

\* s.run() has no event left: scheduled_task returns
ColFinish(e) ==
    /\ col_pc[e] = "run"
    /\ col_queue[e] = <<>>
    /\ col_pc' = [col_pc EXCEPT ![e] = "done"]
    /\ UNCHANGED <<symbols, stored, col_queue, col_symbol, attempt, orderbook,
                   col_frame, fetches>>
    /\ UNCHANGED <<syncVars, profVars, btVars, repVars, thrVars>>

\* lines 101-106: the fetch raises; after the sleep fetch_orders_safely calls
\* itself with attempt + 1
ColFetchRaise(e) ==
    /\ col_pc[e] = "fetch"
    /\ CanAttempt(attempt[e])
    /\ attempt' = [attempt EXCEPT ![e] = attempt[e] + 1]
    /\ fetches' = [fetches EXCEPT ![e] = Append(fetches[e], None)]
    /\ UNCHANGED <<symbols, stored, col_pc, col_queue, col_symbol, orderbook, col_frame>>
    /\ UNCHANGED <<syncVars, profVars, btVars, repVars, thrVars>>

\* lines 101-103: the fetch returns a book, which every pending call returns in turn
ColFetchReturn(e) ==
    /\ col_pc[e] = "fetch"
    /\ CanAttempt(attempt[e])
    /\ \E book \in Books :
           /\ orderbook' = [orderbook EXCEPT ![e] = book]
           /\ fetches' = [fetches EXCEPT ![e] = Append(fetches[e], Some(book))]
    /\ col_pc' = [col_pc EXCEPT ![e] = "fetched"]
    /\ UNCHANGED <<symbols, stored, col_queue, col_symbol, attempt, col_frame>>
    /\ UNCHANGED <<syncVars, profVars, btVars, repVars, thrVars>>

\* line 107: no attempt is left
ColFetchGiveUp(e) ==
    /\ col_pc[e] = "fetch"
    /\ ~CanAttempt(attempt[e])
    /\ orderbook' = [orderbook EXCEPT ![e] = EmptySentinel]
    /\ col_pc' = [col_pc EXCEPT ![e] = "fetched"]
    /\ UNCHANGED <<symbols, stored, col_queue, col_symbol, attempt, col_frame, fetches>>
    /\ UNCHANGED <<syncVars, profVars, btVars, repVars, thrVars>>

\* get_orderbook 93-95 and collect_data 173: the book has no asks; the symbol
\* is removed from the exchange's list, an empty frame is returned and
\* collect_data does nothing with it.
ColEmptySnapshot(e) ==
    /\ col_pc[e] = "fetched"
    /\ ~HasAsks(orderbook[e])
    /\ symbols' = [symbols EXCEPT ![e] = ListRemove(symbols[e], col_symbol[e][1])]
    /\ col_frame' = [col_frame EXCEPT ![e] = Some(<<>>)]
    /\ col_pc' = [col_pc EXCEPT ![e] = "run"]
    /\ UNCHANGED <<stored, col_queue, col_symbol, attempt, orderbook, fetches>>
    /\ UNCHANGED <<syncVars, profVars, btVars, repVars, thrVars>>

\* get_orderbook 96-98 and collect_data 173-179: the snapshot row is computed
\* and written to the instrument's file, or appended when the file exists. The
\* file operations run under the lock of the class (lines 72, 78).
ColStoreSnapshot(e) ==
    /\ col_pc[e] = "fetched"
    /\ HasAsks(orderbook[e])
    /\ \E timestamp \in ColTimes :
           LET orderbook_df == ProcessOrderbookData(orderbook[e], timestamp)
               symbol == col_symbol[e][1]
               file == stored[e][symbol]
           IN /\ col_frame' = [col_frame EXCEPT ![e] = Some(orderbook_df)]
              /\ stored' = [stored EXCEPT ![e][symbol] =
                                 IF file = None THEN Some(orderbook_df)
                                 ELSE Some(file[1] \o orderbook_df)]
    /\ col_pc' = [col_pc EXCEPT ![e] = "run"]
    /\ UNCHANGED <<symbols, col_queue, col_symbol, attempt, orderbook, fetches>>
    /\ UNCHANGED <<syncVars, profVars, btVars, repVars, thrVars>>

NextCollector ==
    \E e \in ColExchanges :
        \/ ColSchedule(e) \/ ColCollect(e) \/ ColFinish(e)
        \/ ColFetchRaise(e) \/ ColFetchReturn(e) \/ ColFetchGiveUp(e)
        \/ ColEmptySnapshot(e) \/ ColStoreSnapshot(e)

SpecCollector == InitCollector /\ [][NextCollector]_vars

----------------------------------------------------------------------------
(* The components together                                                 *)

Init ==
    \/ InitSync \/ InitProfit \/ InitBacktest
    \/ InitReport \/ InitThreads \/ InitCollector

Next ==
    \/ NextSync \/ NextProfit \/ NextBacktest
    \/ NextReport \/ NextThreads \/ NextCollector

Spec == Init /\ [][Next]_vars

----------------------------------------------------------------------------
(* Properties of the stream synchronizer (SpecSync)                        *)

\* C1: every pair get_next_row_pair has returned has timestamps strictly less
\* than the tolerance apart; a pair exactly the tolerance apart is never returned.
C1_PairsWithinTolerance ==
    \A k \in 1..Len(pairs) :
        /\ Abs(pairs[k].row1.timestamp - pairs[k].row2.timestamp) < tolerance
        /\ Abs(pairs[k].row1.timestamp - pairs[k].row2.timestamp) # tolerance

\* A pair has been returned and the rows now compared are exactly the tolerance apart.
C1_Witness ==
    /\ Len(pairs) >= 1
    /\ SyncLooping
    /\ InBounds(index1, df1) /\ InBounds(index2, df2)
    /\ ~(IsLastRow(index1, df1) \/ IsLastRow(index2, df2))
    /\ Abs(df1[index1 + 1].timestamp - df2[index2 + 1].timestamp) = tolerance

\* C2: the last row of a frame is still paired and the merge stops only when a
\* frame is exhausted (an index past its last row); in particular the frames
\* [1000] and [1000] with tolerance 60000 give exactly one pair, at 1000.
C2_LastRowEligible ==
    /\ sync_pc = "done" => (index1 >= Len(df1) \/ index2 >= Len(df2))
    /\ (/\ sync_pc \in {"done", "raised"}
        /\ df1 = <<[timestamp |-> 1000]>>
        /\ df2 = <<[timestamp |-> 1000]>>
        /\ tolerance = 60000)
       => (/\ Len(pairs) = 1
           /\ pairs[1].row1.timestamp = 1000
           /\ pairs[1].row2.timestamp = 1000)

\* C3: no row of df1 and no row of df2 is in two returned pairs: from one
\* returned pair to any later one both positions strictly increase.
C3_NoRowReused ==
    \A k, l \in 1..Len(pairs) :
        k < l => (pairs[k].i1 < pairs[l].i1 /\ pairs[k].i2 < pairs[l].i2)

\* Two pairs have been returned.
C3_Witness == Len(pairs) >= 2

\* C4: with strictly increasing timestamps in each frame, the record timestamps
\* (t1 + t2) // 2 of successive pairs never decrease.
C4_RecordTimestampsOrdered ==
    (StrictlyIncreasing(df1) /\ StrictlyIncreasing(df2))
    => \A k \in 1..(Len(refined_data) - 1) : refined_data[k] <= refined_data[k + 1]

\* Two records have been appended for strictly increasing frames, from rows
\* whose timestamps differ.
C4_Witness ==
    /\ StrictlyIncreasing(df1) /\ StrictlyIncreasing(df2)
    /\ Len(refined_data) >= 2
    /\ pairs[2].row1.timestamp # pairs[2].row2.timestamp

\* C5: with an empty frame on either side the synchronizer returns no pair and
\* raises no error.
C5_EmptyInputClean ==
    (sync_pc # "idle" /\ (Len(df1) = 0 \/ Len(df2) = 0))
    => (sync_pc # "raised" /\ pairs = <<>>)

----------------------------------------------------------------------------
(* Properties of the profitability model (SpecProfit)                      *)

\* The row and the exchange on which the returned record buys, and sells.
BuyRow == IF result.buy_exchange = exchange_obj1.name THEN df_exchange1 ELSE df_exchange2

SellRow == IF result.sell_exchange = exchange_obj1.name THEN df_exchange1 ELSE df_exchange2

SellExchange == IF result.sell_exchange = exchange_obj1.name THEN exchange_obj1 ELSE exchange_obj2

\* The gross profit of buying on one exchange and selling on the other, written
\* out from the rows: quote received less the outlay, in euro (times Scale).
GrossEuro(buy_row, sell_row, buy_ex, sell_ex) ==
    LET volume == IF buy_row.ask_volume < sell_row.bid_volume
                  THEN buy_row.ask_volume ELSE sell_row.bid_volume
    IN (volume * (FeeDen - buy_ex.taker) * sell_row.bid_price * (FeeDen - sell_ex.taker)
        - volume * buy_row.ask_price * FeeDen * FeeDen) * euro_values[Quote]

Gross12 == GrossEuro(df_exchange1, df_exchange2, exchange_obj1, exchange_obj2)

Gross21 == GrossEuro(df_exchange2, df_exchange1, exchange_obj2, exchange_obj1)

C8_MissingFeeNetUndefined ==
    (prof_pc = "returned" /\ Quote \notin DOMAIN SellExchange.withdraw)
    => /\ result.net_profit_euro = None
       /\ result.net_profit_btc = None
       /\ result.percent_net_profit = None
       /\ result.gross_profit_euro = IF Gross12 > Gross21 THEN Gross12 ELSE Gross21

----------------------------------------------------------------------------
(* Properties of the backtest walk (SpecBacktest)                          *)

\* C10: after a trade realized at a record with timestamp T (ms), no later trade
\* is realized at a record whose timestamp is strictly between T and
\* T + waiting_time (s).
C10_CooldownRespected ==
    \A k, l \in 1..Len(realized) :
        k < l =>
            LET T == full_dataframe[realized[k] + 1].timestamp
                U == full_dataframe[realized[l] + 1].timestamp
            IN ~(T < U /\ U < T + waiting_time * 1000)

\* the timestamp (ms) of the record at position p (0-based) of the frame
TimestampAt(p) == full_dataframe[p + 1].timestamp

\* the positions at which a trade has been realized
RealizedPositions == {realized[i] : i \in 1..Len(realized)}

\* C11: whenever a record is evaluated right after a realized trade at timestamp
\* T, it is the first record after the trade whose timestamp is at least
\* T + waiting_time: its own timestamp is at least that, and every record between
\* the two lies before it.
C11_NextEvaluatedIsFirstEligible ==
    \A k \in 1..(Len(evaluated) - 1) :
        evaluated[k] \in RealizedPositions =>
            LET p == evaluated[k]
                q == evaluated[k + 1]
                eligible_from == TimestampAt(p) + waiting_time * 1000
            IN /\ TimestampAt(q) >= eligible_from
               /\ \A j \in (p + 1)..(q - 1) : TimestampAt(j) < eligible_from

\* position p lies inside the cooldown window of a trade realized before it
InCooldownWindow(p) ==
    \E r \in RealizedPositions :
        r < p /\ TimestampAt(p) < TimestampAt(r) + waiting_time * 1000

\* the number of times position p has been evaluated
TimesEvaluated(p) == Cardinality({i \in 1..Len(evaluated) : evaluated[i] = p})

\* C12: once the walk has ended, every record of the frame that is not inside a
\* cooldown window, the final records included, has been evaluated exactly once.
C12_EveryRecordEvaluatedOnce ==
    bt_pc \in {"post", "returned"} =>
        \A p \in 0..(Len(full_dataframe) - 1) :
            InCooldownWindow(p) \/ TimesEvaluated(p) = 1

C14_CreditedAtMostRecordProfit ==
    \A i \in 1..Len(profits_over_time.profit) :
        profits_over_time.profit[i] <= full_dataframe[realized[i] + 1].net_profit_euro

\* C15: at every point of the walk the time list and the profit list have the
\* same length, and the i-th time is the timestamp (in whole seconds) of the i-th
\* realized trade.
C15_OneTimePerRealizedTrade ==
    bt_pc \in {"start", "loop", "post"} =>
        /\ Len(profits_over_time.time) = Len(profits_over_time.profit)
        /\ \A i \in 1..Len(profits_over_time.profit) :
               profits_over_time.time[i] = RoundSeconds(TimestampAt(realized[i]))

\* C16: an iteration on a record whose capped profit (net profit times the
\* initial amount, the amount capped at max_trade_volume) does not exceed
\* minimum_profit leaves the profit list and cumulative_profit unchanged and
\* moves the cursor to the immediately next record.
C16_UnrealizedRecordOnlyAdvances ==
    [][(/\ bt_pc = "loop"
        /\ LET row == full_dataframe[bt_row + 1]
               amount == IF row.max_initial_amount > max_trade_volume
                         THEN max_trade_volume ELSE row.max_initial_amount
           IN row.net_profit_euro * amount <= minimum_profit)
       => /\ profits_over_time'.profit = profits_over_time.profit
          /\ profits_over_time'.cumulative_profit = profits_over_time.cumulative_profit
          /\ bt_row' = bt_row + 1]_vars

\* A trade has been realized, and after it a record whose capped profit equals
\* minimum_profit has been evaluated without being recorded.
C16_Witness ==
    /\ bt_pc \in {"loop", "post"}
    /\ Len(evaluated) = 2
    /\ realized = <<evaluated[1]>>
    /\ full_dataframe[evaluated[2] + 1].net_profit_euro = minimum_profit
    /\ Len(profits_over_time.profit) = 1
    /\ profits_over_time.cumulative_profit = profits_over_time.profit[1]

RECURSIVE SumSeq(_)
SumSeq(s) == IF s = <<>> THEN 0 ELSE s[1] + SumSeq(Tail(s))

\* C17: every step of the walk leaves cumulative_profit at least as large as it
\* was, and equal to the sum of the profits appended to the profit list so far.
C17_CumulativeIsMonotoneSum ==
    [][(bt_pc \in {"start", "loop"})
       => (/\ profits_over_time'.cumulative_profit >= profits_over_time.cumulative_profit
           /\ profits_over_time'.cumulative_profit = SumSeq(profits_over_time'.profit))
      ]_vars

\* Two trades have been realized and cumulative_profit holds both amounts.
C17_Witness ==
    /\ bt_pc \in {"loop", "post"}
    /\ Len(realized) = 2
    /\ Len(profits_over_time.profit) = 2
    /\ profits_over_time.profit[1] # profits_over_time.profit[2]
    /\ profits_over_time.cumulative_profit =
           profits_over_time.profit[1] + profits_over_time.profit[2]

----------------------------------------------------------------------------
(* Properties of the post-processing of backtest_results (SpecBacktest)    *)

\* the seconds between the first and the last entry of a list of positions, each
\* taken in whole seconds as line 77 takes them
ElapsedSeconds(positions) ==
    RoundSeconds(TimestampAt(positions[Len(positions)]))
        - RoundSeconds(TimestampAt(positions[1]))

\* C18: the normalized cumulative profit of a returned result with realized
\* trades is the sum of the realized profits times 1440 over the minutes elapsed
\* between the first and the last realized trade.
C18_NormalizedOverRealizedSpan ==
    (bt_pc = "returned" /\ realized # <<>>) =>
        profits_over_time.cumulative_profit =
            Normalized(SumSeq(profits_over_time.profit),
                       MinutesX100(ElapsedSeconds(realized)))

\* C19: when no record of a non-empty frame was evaluated, or no time elapsed
\* between the first and the last evaluated record, backtest_results does not
\* raise an error.
C19_DegenerateSeriesDoesNotRaise ==
    (/\ Len(full_dataframe) > 0
     /\ \/ evaluated = <<>>
        \/ MinutesX100(ElapsedSeconds(evaluated)) = 0)
    => bt_pc # "raised"

\* C20: the cumulative_profit of a returned result has the value of the raw
\* cumulative profit, the sum of the realized profits.
C20_RawCumulativeKept ==
    bt_pc = "returned" =>
        profits_over_time.cumulative_profit.num =
            SumSeq(profits_over_time.profit) * profits_over_time.cumulative_profit.den

----------------------------------------------------------------------------
(* Further properties of the stream synchronizer (SpecSync)                *)

\* C23: each returned pair is as close as possible: no row of df2 that was not
\* yet consumed when the pair was returned is closer in timestamp to row1 than
\* row2 is, and no such row of df1 is closer to row2 than row1 is.
C23_PairsAsCloseAsPossible ==
    \A k \in 1..Len(pairs) :
        LET p == pairs[k]
            d == Abs(p.row1.timestamp - p.row2.timestamp)
        IN /\ \A j \in p.i2..(Len(df2) - 1) :
                  Abs(df2[j + 1].timestamp - p.row1.timestamp) >= d
           /\ \A j \in p.i1..(Len(df1) - 1) :
                  Abs(df1[j + 1].timestamp - p.row2.timestamp) >= d

IndexesInRange ==
    /\ 0 <= index1 /\ index1 <= Len(df1) - 1
    /\ 0 <= index2 /\ index2 <= Len(df2) - 1

\* C27: for two non-empty frames the indexes are on rows of their frames before
\* and after every step; every iteration either sets finished or increases
\* index1 + index2; and once finished is set it stays set, refine_results has
\* left its loop and no further pair is returned.
C27_CursorSafety ==
    [][(df1 # <<>> /\ df2 # <<>>)
       => /\ IndexesInRange
          /\ IndexesInRange'
          /\ (sync_pc = "run" /\ ~finished)
                => (finished' \/ index1' + index2' > index1 + index2)
          /\ finished' => sync_pc' = "done"
          /\ finished => (finished' /\ pairs' = pairs)]_vars

\* The loop has ended with finished set, after a pair was returned and an index
\* moved on its own.
C27_Witness ==
    /\ finished
    /\ sync_pc = "done"
    /\ Len(pairs) >= 1
    /\ index1 # index2

----------------------------------------------------------------------------
(* Properties of the collector (SpecCollector)                             *)

\* C25: a call of fetch_orders_safely makes at most 5 fetch attempts; it
\* returns the book of its first successful fetch, every fetch before it having
\* failed, or, after 5 failed fetches, the sentinel {asks: False, bids: False}.
C25_BoundedRetry ==
    \A e \in ColExchanges :
        LET f == fetches[e]
        IN /\ Len(f) <= 5
           /\ \A i \in 1..(Len(f) - 1) : f[i] = None
           /\ col_pc[e] = "fetched" =>
                 \/ /\ f # <<>>
                    /\ f[Len(f)] # None
                    /\ orderbook[e] = f[Len(f)][1]
                 \/ /\ Len(f) = 5
                    /\ f[5] = None
                    /\ orderbook[e] = [asks |-> PyFalse, bids |-> PyFalse]

\* A call has returned the sentinel after five failed fetches.
C25_Witness ==
    \E e \in ColExchanges :
        /\ col_pc[e] = "fetched"
        /\ Len(fetches[e]) = 5
        /\ orderbook[e] = [asks |-> PyFalse, bids |-> PyFalse]

\* the list l without the symbol x
WithoutSymbol(l, x) == SelectSeq(l, LAMBDA y : y # x)

----------------------------------------------------------------------------
(* Properties of put_to_text_files (SpecReport)                            *)

----------------------------------------------------------------------------
(* Properties of the give_jobs threads (SpecThreads)                       *)

\* the threads inside the open/write section that line 142 guards
InGuardedSection == {t \in Threads : thr_pc[t] \in {"open", "write"}}

\* C22: at no time are two threads inside the guarded open/write section.
C22_WritesSerialized == Cardinality(InGuardedSection) <= 1

====
